---- MODULE Spec2Model ----
(* A model of the portfolio API: the route handlers of main.py, the schemas  *)
(* of schemas.py, and the document store adapter (database.py, which is not  *)
(* part of the sources and is modelled from the specification, section 4.1). *)
(*                                                                           *)
(* Encodings.  A document is a function from field names to values.  A      *)
(* scalar value of a profile or project document is a tuple: <<>> is None,   *)
(* <<s>> is the string s, <<"int", n>> is the integer n; in a URL field      *)
(* (avatar, url, repo) the string is itself a sequence of one-character      *)
(* strings, so that it can be parsed.  A list (skills, tags) is              *)
(* <<"list", elements>>, the elements a sequence of values, and a mapping    *)
(* (socials) is <<"dict", record>>, the record from keys to values, so that  *)
(* None, a string, a list and a mapping are told apart.  In a request        *)
(* payload a field is <<>> when absent and <<v>> when present.  A store      *)
(* identifier (ObjectId) is a natural number; its string form is the         *)
(* sequence of its hex digits.  An e-mail address is a sequence of           *)
(* one-character strings.  A message body is represented by its length, the  *)
(* only thing the schema inspects.  The status strings of /test are written  *)
(* without their leading pictogram.  The store hands back the documents of   *)
(* a collection in an order of its own choosing at each read.                *)
EXTENDS Integers, Sequences, FiniteSets, Bags, TLC

\* ------------------------------------------------------------------ bounds
MaxRequests == 3      \* requests accepted in one run
MaxInFlight == 2      \* seed requests that may be in flight together
EmailMaxLen == 5      \* longest e-mail address submitted
MaxOther == 8         \* collections of the database that are not this API's

\* ------------------------------------------------------- program constants
MinLen == 3           \* ContactMessage.message min_length
MaxLen == 5000        \* ContactMessage.message max_length
ListLimit == 10       \* db.list_collection_names()[:10]
ErrLimit == 80        \* str(e)[:80]
MaxUrlLen == 2083     \* max_length of HttpUrl

VARIABLES
    dbSet,      \* `db` is not None: the adapter opened a connection
    urlSet,     \* DATABASE_URL is set in the environment
    other,      \* number of other collections in the database
    store,      \* collection name -> sequence of stored documents
    nextId,     \* the store's identifier generator
    seeds,      \* the bag of in-flight seed_content calls, each at its position
    resp,       \* the response of the request that completed last
    nreq,       \* requests accepted so far
    ndone,      \* responses produced so far
    obs         \* observer: the store operations of the last answered
                \* request, and the collection sizes (pre) when the latest
                \* request was accepted

vars == <<dbSet, urlSet, other, store, nextId, seeds, resp, nreq, ndone, obs>>

Collections == {"portfolioprofile", "portfolioproject", "contactmessage"}

Min(a, b) == IF a < b THEN a ELSE b

\* dict.pop(key, None): the document without the key
Pop(doc, key) == [f \in DOMAIN doc \ {key} |-> doc[f]]

IsPrefix(s, t) == Len(s) <= Len(t) /\ SubSeq(t, 1, Len(s)) = s

\* ----------------------------------------------------------------- schemas
ProfileRequired == {"name", "role", "bio"}

ProfileDefaults ==
    [location |-> <<>>, avatar |-> <<>>,
     socials |-> <<"dict",
                  [github |-> <<>>, twitter |-> <<>>, linkedin |-> <<>>,
                   website |-> <<>>]>>,
     skills |-> <<"list", <<>>>>]

ProfileFields == ProfileRequired \cup DOMAIN ProfileDefaults

\* --- field types
\* str: a string, not None and not a value of another type
IsStr(v) == Len(v) = 1

\* Optional[str]
IsOptStr(v) == Len(v) <= 1

\* List[str]: a list, not None nor a string, whose elements are strings
IsStrList(v) ==
    /\ Len(v) = 2
    /\ v[1] = "list"
    /\ \A i \in 1..Len(v[2]) : IsStr(v[2][i])

\* Dict[str, Optional[str]]: a mapping, not None, whose values are None or
\* strings
IsOptStrDict(v) ==
    /\ Len(v) = 2
    /\ v[1] = "dict"
    /\ \A k \in DOMAIN v[2] : IsOptStr(v[2][k])

\* the text s starts with the text p
StartsWith(s, p) == Len(s) >= Len(p) /\ SubSeq(s, 1, Len(p)) = p

\* s without its first n characters
Drop(s, n) == SubSeq(s, n + 1, Len(s))

\* the position of the first character of s that is in chars, Len(s) + 1
\* when there is none
FirstOf(s, chars) ==
    IF \E i \in 1..Len(s) : s[i] \in chars
    THEN CHOOSE i \in 1..Len(s) :
            s[i] \in chars /\ \A j \in 1..(i - 1) : s[j] \notin chars
    ELSE Len(s) + 1

\* the position of the last character of s that is in chars, 0 when there
\* is none
LastOf(s, chars) ==
    IF \E i \in 1..Len(s) : s[i] \in chars
    THEN CHOOSE i \in 1..Len(s) :
            s[i] \in chars /\ \A j \in (i + 1)..Len(s) : s[j] \notin chars
    ELSE 0

RECURSIVE EncodeSpaces(_)
\* s with each space written %20
EncodeSpaces(s) ==
    IF FirstOf(s, {" "}) > Len(s) THEN s
    ELSE SubSeq(s, 1, FirstOf(s, {" "}) - 1) \o <<"%", "2", "0">>
         \o EncodeSpaces(Drop(s, FirstOf(s, {" "})))

RECURSIVE Split(_)
\* the segments of a path: the texts that follow each of its "/"
Split(s) ==
    IF s = <<>> THEN <<>>
    ELSE LET after == Drop(s, 1)
             n == FirstOf(after, {"/"}) - 1
         IN << SubSeq(after, 1, n) >> \o Split(Drop(after, n))

RECURSIVE Join(_)
\* the path made of the segments
Join(segs) ==
    IF segs = <<>> THEN <<>>
    ELSE <<"/">> \o segs[1] \o Join(Drop(segs, 1))

RECURSIVE DotSegments(_, _)
\* the segments segs after `out` once "." and ".." are resolved: "." is
\* left out, ".." removes the segment before it, and either of them at the
\* end leaves an empty segment
DotSegments(segs, out) ==
    IF segs = <<>> THEN out
    ELSE LET last == IF Len(segs) = 1 THEN << <<>> >> ELSE <<>>
         IN IF segs[1] = <<".", ".">>
            THEN DotSegments(Drop(segs, 1),
                             SubSeq(out, 1, Len(out) - 1) \o last)
            ELSE IF segs[1] = <<".">>
            THEN DotSegments(Drop(segs, 1), out \o last)
            ELSE DotSegments(Drop(segs, 1), Append(out, segs[1]))

Letters == {"a", "b", "c", "d", "e", "f", "g", "h", "i", "j", "k", "l", "m",
            "n", "o", "p", "q", "r", "s", "t", "u", "v", "w", "x", "y", "z"}

DecimalDigits == <<"0", "1", "2", "3", "4", "5", "6", "7", "8", "9">>

Digits == {DecimalDigits[i] : i \in 1..10}

\* the characters of the URL texts covered
UrlAlphabet == Letters \cup Digits \cup {":", "/", ".", " "}

RECURSIVE PortNumber(_, _)
\* the number written by the digits s after the number acc, 65536 as soon
\* as it is no 16-bit number
PortNumber(s, acc) ==
    IF s = <<>> THEN acc
    ELSE LET n == acc * 10 + (FirstOf(DecimalDigits, {s[1]}) - 1)
         IN IF n > 65535 THEN 65536 ELSE PortNumber(Drop(s, 1), n)

RECURSIVE Decimal(_)
\* the decimal digits of n
Decimal(n) ==
    IF n < 10 THEN << DecimalDigits[n + 1] >>
    ELSE Append(Decimal(n \div 10), DecimalDigits[(n % 10) + 1])

\* the port a scheme implies, which the normal form leaves out
DefaultPort(scheme) == IF scheme = <<"h", "t", "t", "p">> THEN 80 ELSE 443

\* the text u without its leading and trailing spaces
Trimmed(u) ==
    SubSeq(u, FirstOf(u, UrlAlphabet \ {" "}), LastOf(u, UrlAlphabet \ {" "}))

\* the scheme of a text: what precedes the colon of a leading "http:" or
\* "https:", <<>> for any other text
Scheme(text) ==
    IF StartsWith(text, <<"h", "t", "t", "p", "s", ":">>)
    THEN <<"h", "t", "t", "p", "s">>
    ELSE IF StartsWith(text, <<"h", "t", "t", "p", ":">>)
    THEN <<"h", "t", "t", "p">>
    ELSE <<>>

\* s without its leading "/" characters
SkipSlashes(s) == Drop(s, FirstOf(s, UrlAlphabet \ {"/"}) - 1)

\* the authority host or host:port and the path that follows it
AuthorityParts(scheme, authority, path) ==
    [scheme |-> scheme,
     host |-> SubSeq(authority, 1, FirstOf(authority, {":"}) - 1),
     port |-> Drop(authority, Min(FirstOf(authority, {":"}), Len(authority))),
     path |-> path]

\* rest is what follows the scheme and its slashes: the authority runs to
\* the next "/", the path is what remains
SchemeParts(scheme, rest) ==
    AuthorityParts(scheme, SubSeq(rest, 1, FirstOf(rest, {"/"}) - 1),
                   Drop(rest, FirstOf(rest, {"/"}) - 1))

\* the scheme, host, port and path of the trimmed text
TextParts(text) ==
    SchemeParts(Scheme(text), SkipSlashes(Drop(text, Len(Scheme(text)) + 1)))

\* the parts of the text u read as a URL
UrlParts(u) == TextParts(Trimmed(u))

\* the host is one the URL syntax accepts: not empty and without a space
HostAllowed(host) == host # <<>> /\ \A i \in 1..Len(host) : host[i] # " "

\* the host is a domain name whose labels each start with a letter
HostCovered(host) ==
    /\ host[1] \in Letters
    /\ host[Len(host)] # "."
    /\ \A i \in 1..(Len(host) - 1) : host[i] = "." => host[i + 1] \in Letters

\* the parts are those of a text that is covered
PartsCovered(parts) ==
    (parts.scheme # <<>> /\ HostAllowed(parts.host)) => HostCovered(parts.host)

\* the URL texts covered: made of lower-case letters, digits, ":", "/",
\* "." and spaces, the host (where there is an allowed one) a domain name
\* whose labels each start with a letter.  (Other texts, among them upper
\* case, numeric and bracketed hosts, user information, queries, fragments
\* and characters that are percent-encoded, are not covered.)
UrlCovered(u) ==
    /\ \A i \in 1..Len(u) : u[i] \in UrlAlphabet
    /\ PartsCovered(UrlParts(u))

\* the normal form scheme://host[:port]/path of the parts, number being
\* the port: the port is written in decimal and left out when it is absent
\* or the scheme's default, "." and ".." segments of the path are resolved,
\* the path is "/" when empty and its spaces are written %20
Normalised(parts, number) ==
    parts.scheme \o <<":", "/", "/">> \o parts.host
    \o (IF parts.port = <<>> \/ number = DefaultPort(parts.scheme)
        THEN <<>> ELSE <<":">> \o Decimal(number))
    \o (IF parts.path = <<>> THEN <<"/">>
        ELSE EncodeSpaces(Join(DotSegments(Split(parts.path), <<>>))))

\* <<normal form>> of the parts, or <<>> when they make no http(s) URL: the
\* scheme must be http or https, the host allowed, the port empty or a
\* number up to 65535
Validated(parts, number) ==
    IF \/ parts.scheme = <<>>
       \/ ~HostAllowed(parts.host)
       \/ \E i \in 1..Len(parts.port) : parts.port[i] \notin Digits
       \/ number > 65535
    THEN <<>>
    ELSE << Normalised(parts, number) >>

\* the port of the parts as a number (0 when the port is no number)
PortOf(parts) ==
    IF \A i \in 1..Len(parts.port) : parts.port[i] \in Digits
    THEN PortNumber(parts.port, 0) ELSE 0

\* <<normal form>> of text parts
ValidatedParts(parts) == Validated(parts, PortOf(parts))

\* HttpUrl on a covered text u: <<normalised text>>, or <<>> when u has
\* more than 2083 characters or is no http(s) URL.  The operator has no
\* value on a text that is not covered.
HttpUrl(u) ==
    CASE UrlCovered(u) ->
        IF Len(u) > MaxUrlLen THEN <<>> ELSE ValidatedParts(UrlParts(u))

\* Optional[HttpUrl]: None, or a string that parses as an http(s) URL
IsOptUrl(v) == v = <<>> \/ (Len(v) = 1 /\ HttpUrl(v[1]) # <<>>)

\* the validated value of an Optional[HttpUrl] field
OptUrl(v) == IF v = <<>> THEN <<>> ELSE HttpUrl(v[1])

\* the value of field f of doc, or its default when doc has no field f
FieldOr(doc, f, defaults) == IF f \in DOMAIN doc THEN doc[f] ELSE defaults[f]

\* PortfolioProfile with the location field left out of the schema
PortfolioProfileNoLocation(doc) ==
    IF /\ ProfileRequired \subseteq DOMAIN doc
       /\ \A f \in ProfileRequired : IsStr(doc[f])
       /\ IsOptStr(FieldOr(doc, "location", ProfileDefaults))
       /\ IsOptUrl(FieldOr(doc, "avatar", ProfileDefaults))
       /\ IsOptStrDict(FieldOr(doc, "socials", ProfileDefaults))
       /\ IsStrList(FieldOr(doc, "skills", ProfileDefaults))
    THEN << [f \in ProfileFields \ {"location"} |->
                IF f = "avatar" THEN OptUrl(FieldOr(doc, f, ProfileDefaults))
                ELSE FieldOr(doc, f, ProfileDefaults)] >>
    ELSE <<>>

\* PortfolioProfile(**doc): <<model>>, or <<>> for a ValidationError.  The
\* required fields must be present strings, location None or a string,
\* avatar None or an http(s) URL, which is normalised, the values of
\* socials None or strings, the elements of skills strings; unknown fields
\* are ignored and absent optional fields take their default.
PortfolioProfile(doc) ==
    IF /\ ProfileRequired \subseteq DOMAIN doc
       /\ \A f \in ProfileRequired : IsStr(doc[f])
       /\ IsOptStr(FieldOr(doc, "location", ProfileDefaults))
       /\ IsOptUrl(FieldOr(doc, "avatar", ProfileDefaults))
       /\ IsOptStrDict(FieldOr(doc, "socials", ProfileDefaults))
       /\ IsStrList(FieldOr(doc, "skills", ProfileDefaults))
    THEN << [f \in ProfileFields |->
                IF f = "avatar" THEN OptUrl(FieldOr(doc, f, ProfileDefaults))
                ELSE FieldOr(doc, f, ProfileDefaults)] >>
    ELSE <<>>

ProjectRequired == {"title", "description"}

ProjectDefaults ==
    [image |-> <<>>, tags |-> <<"list", <<>>>>, url |-> <<>>, repo |-> <<>>]

ProjectFields == ProjectRequired \cup DOMAIN ProjectDefaults

\* PortfolioProject(**d): title and description must be present strings,
\* image None or a string, url and repo None or an http(s) URL, the elements
\* of tags strings
PortfolioProject(doc) ==
    IF /\ ProjectRequired \subseteq DOMAIN doc
       /\ \A f \in ProjectRequired : IsStr(doc[f])
       /\ IsOptStr(FieldOr(doc, "image", ProjectDefaults))
       /\ IsOptUrl(FieldOr(doc, "url", ProjectDefaults))
       /\ IsOptUrl(FieldOr(doc, "repo", ProjectDefaults))
       /\ IsStrList(FieldOr(doc, "tags", ProjectDefaults))
    THEN << [f \in ProjectFields |->
                IF f \in {"url", "repo"}
                THEN OptUrl(FieldOr(doc, f, ProjectDefaults))
                ELSE FieldOr(doc, f, ProjectDefaults)] >>
    ELSE <<>>

\* --- EmailStr: the address syntax over the alphabet {a, @, .}
EmailChars == {"a", "@", "."}

Positions(s, ch) == {i \in 1..Len(s) : s[i] = ch}

\* a dot-atom: non-empty, no leading, trailing or doubled dot, no "@"
IsDotAtom(s) ==
    /\ Len(s) > 0
    /\ s[1] # "." /\ s[Len(s)] # "."
    /\ \A i \in 1..Len(s) : s[i] # "@"
    /\ \A i \in 1..(Len(s) - 1) : ~(s[i] = "." /\ s[i + 1] = ".")

\* exactly one "@", a dot-atom before it, a dotted host name after it
IsEmail(s) ==
    /\ Cardinality(Positions(s, "@")) = 1
    /\ LET at == CHOOSE i \in Positions(s, "@") : TRUE
           local == SubSeq(s, 1, at - 1)
           domain == SubSeq(s, at + 1, Len(s))
       IN /\ IsDotAtom(local)
          /\ IsDotAtom(domain)
          /\ Positions(domain, ".") # {}

\* ContactMessage without the min_length constraint
ContactMessageNoMin(p) ==
    /\ Len(p.name) = 1
    /\ Len(p.email) = 1 /\ IsEmail(p.email[1])
    /\ Len(p.message) = 1
    /\ p.message[1] <= MaxLen

\* ContactMessage with both length limits exclusive
ContactMessageStrict(p) ==
    /\ Len(p.name) = 1
    /\ Len(p.email) = 1 /\ IsEmail(p.email[1])
    /\ Len(p.message) = 1
    /\ p.message[1] > MinLen /\ p.message[1] < MaxLen

\* ContactMessage field constraints on a payload whose fields are Optional
ContactMessage(p) ==
    /\ Len(p.name) = 1
    /\ Len(p.email) = 1 /\ IsEmail(p.email[1])
    /\ Len(p.message) = 1
    /\ p.message[1] >= MinLen /\ p.message[1] <= MaxLen

\* SeedRequest.with_demo: bool = True
SeedRequest(p) == IF Len(p) = 0 THEN TRUE ELSE p[1]

\* ------------------------------------------------- document store adapter
HexDigits == <<"0", "1", "2", "3", "4", "5", "6", "7",
               "8", "9", "a", "b", "c", "d", "e", "f">>

RECURSIVE IdString(_)
\* str(result.inserted_id): the hex digits of the identifier, at least one
IdString(n) ==
    IF n < 16 THEN << HexDigits[n + 1] >>
    ELSE Append(IdString(n \div 16), HexDigits[(n % 16) + 1])

\* a store operation succeeds when the connection exists and the backend
\* does not reject it (ok is the backend's answer)
StoreOk(ok) == dbSet /\ ok

\* create(collection, record): the collection with the new document
Inserted(coll, data) ==
    [store EXCEPT ![coll] = Append(@, data @@ ("_id" :> nextId))]

\* the orders in which the backend may hand back n documents, as sequences
\* of positions: every rotation of the insertion order and of its reverse
\* (which is every order of up to three documents)
Orders(n) ==
    IF n = 0 THEN {<<>>}
    ELSE {[i \in 1..n |-> ((first + i - 2) % n) + 1] : first \in 1..n}
         \cup {[i \in 1..n |-> ((first - i + n) % n) + 1] : first \in 1..n}

\* list(collection, limit): up to `limit` documents, in the order the
\* backend provides this time
get_documents(coll, limit, order) ==
    [i \in 1..(IF Len(limit) = 1 THEN Min(limit[1], Len(store[coll]))
                ELSE Len(store[coll])) |-> store[coll][order[i]]]

\* count(collection, {})
count_documents(coll) == Len(store[coll])

OtherNames == <<"c01", "c02", "c03", "c04", "c05", "c06",
                "c07", "c08", "c09", "c10", "c11", "c12">>

\* db.list_collection_names(): the non-empty collections of this API, then
\* the other collections of the database
list_collection_names ==
    (IF store["portfolioprofile"] # <<>> THEN <<"portfolioprofile">> ELSE <<>>)
    \o (IF store["portfolioproject"] # <<>> THEN <<"portfolioproject">> ELSE <<>>)
    \o (IF store["contactmessage"] # <<>> THEN <<"contactmessage">> ELSE <<>>)
    \o SubSeq(OtherNames, 1, other)

\* ------------------------------------------------------------ seed content
\* the profile document of seed_content
SeedProfile ==
    [name |-> <<"Legas Yasin">>, role |-> <<"Web Developer">>,
     bio |-> <<"I build vibrant, modern, and high-performance web experiences.">>,
     location |-> <<"Addis Ababa, Ethiopia">>,
     avatar |-> <<>>,
     socials |-> <<"dict",
                  [github |-> <<"https://github.com/">>, twitter |-> <<>>,
                   linkedin |-> <<"https://www.linkedin.com/">>,
                   website |-> <<"https://example.com">>]>>,
     skills |-> <<"list",
                  << <<"React">>, <<"Tailwind CSS">>, <<"Framer Motion">>,
                     <<"FastAPI">>, <<"MongoDB">> >> >>]

\* a sample list that lost its last project
sampleTwo ==
    << [title |-> <<"ColorSplash Landing">>,
        description |-> <<"Vibrant landing page with animated gradients and responsive design.">>,
        image |-> <<"/images/project-1.jpg">>,
        tags |-> <<"list", << <<"React">>, <<"Tailwind">> >> >>,
        url |-> <<>>, repo |-> <<>>],
       [title |-> <<"Portfolio Grid">>,
        description |-> <<"Masonry grid of projects with smooth hover effects and modals.">>,
        image |-> <<"/images/project-2.jpg">>,
        tags |-> <<"list", << <<"React">>, <<"Framer Motion">> >> >>,
        url |-> <<>>, repo |-> <<>>] >>

\* the `sample` list of seed_content
sample ==
    << [title |-> <<"ColorSplash Landing">>,
        description |-> <<"Vibrant landing page with animated gradients and responsive design.">>,
        image |-> <<"/images/project-1.jpg">>,
        tags |-> <<"list", << <<"React">>, <<"Tailwind">> >> >>,
        url |-> <<>>, repo |-> <<>>],
       [title |-> <<"Portfolio Grid">>,
        description |-> <<"Masonry grid of projects with smooth hover effects and modals.">>,
        image |-> <<"/images/project-2.jpg">>,
        tags |-> <<"list", << <<"React">>, <<"Framer Motion">> >> >>,
        url |-> <<>>, repo |-> <<>>],
       [title |-> <<"API Dashboard">>,
        description |-> <<"Clean dashboard consuming REST APIs with reusable components.">>,
        image |-> <<"/images/project-3.jpg">>,
        tags |-> <<"list", << <<"React">>, <<"API">> >> >>,
        url |-> <<>>, repo |-> <<>>] >>

\* a seed that inserts whatever the count
SeedWantedAlways(count) == TRUE

\* `count_documents({}) == 0`: the seed inserts into a collection it saw empty
SeedWanted(count) == count = 0

\* --- records put in the store by external management, which the schemas
\* of this API did not check
UrlBare == <<"h", "t", "t", "p", "s", ":", "/", "/", "e">>

UrlPath == <<"h", "t", "t", "p", ":", "/", "/", "e", "/", "a">>

UrlNoSlashes == <<"h", "t", "t", "p", ":", "e", ":", "8", "0">>

UrlSpaced == <<" ", "h", "t", "t", "p", "s", ":", "/", "/", "e", ":", "8",
               "/", "a", " ", "b">>

NotUrl == <<"n", "o", "t", " ", "a", " ", "u", "r", "l">>

UrlDots == <<"h", "t", "t", "p", ":", "/", "/", "e", ":", "0", "8", "0", "/",
             "a", "/", ".", ".", "/", "b", "/", ".">>

UrlBigPort == <<"h", "t", "t", "p", ":", "/", "/", "e", ":", "6", "5", "5",
                "3", "6">>

\* a URL text of the greatest length allowed
UrlLongest == UrlPath \o [i \in 1..(MaxUrlLen - Len(UrlPath)) |-> "a"]

\* a URL text one character longer
UrlTooLong == UrlLongest \o <<"a">>

ExtProfile == [name |-> <<"Ann">>, role |-> <<"Dev">>, bio |-> <<"Hi">>]

ExtProject == [title |-> <<"Site">>, description |-> <<"A site">>]

\* docs as stored records, with the identifiers base + 1, base + 2, ...
Stored(docs, base) ==
    [i \in 1..Len(docs) |-> docs[i] @@ ("_id" :> (base + i))]

\* the stores considered: the profile and the project documents of each
ExtStores ==
    << [profiles |-> << ExtProfile @@ [avatar |-> <<UrlBare>>,
                                       theme |-> <<"dark">>] >>,
        projects |-> << ExtProject @@ [url |-> <<UrlBare>>,
                                       repo |-> <<UrlSpaced>>],
                        ExtProject >>],
       [profiles |-> << ExtProfile @@ [avatar |-> <<NotUrl>>] >>,
        projects |-> << ExtProject @@ [url |-> <<NotUrl>>] >>],
       [profiles |-> << [ExtProfile EXCEPT !.name = <<>>] >>,
        projects |-> << [ExtProject EXCEPT !.title = <<>>] >>],
       [profiles |-> << [ExtProfile EXCEPT !.name = <<"int", 5>>] >>,
        projects |-> << ExtProject @@ [repo |-> <<UrlPath>>],
                        [ExtProject EXCEPT !.title = <<"int", 5>>] >>],
       [profiles |-> << ExtProfile >>,
        projects |-> <<>>],
       [profiles |-> <<>>,
        projects |-> << ExtProject @@ [url |-> <<UrlNoSlashes>>,
                                       image |-> <<"int", 5>>] >>],
       [profiles |-> << ExtProfile @@ [avatar |-> <<UrlDots>>,
                                       location |-> <<"Oslo">>],
                        ExtProfile @@ [avatar |-> <<NotUrl>>] >>,
        projects |-> << [title |-> <<"Site">>] >>],
       [profiles |-> << ExtProfile @@ [location |-> <<"int", 5>>] >>,
        projects |-> << ExtProject @@ [repo |-> <<UrlNoSlashes>>] >>],
       [profiles |-> << ExtProfile @@
                          [socials |-> <<"dict", [github |-> <<"int", 5>>,
                                                  twitter |-> <<>>]>>] >>,
        projects |-> << ExtProject @@ [url |-> <<UrlDots>>,
                                       tags |-> <<"list", << <<"web">> >> >>] >>],
       [profiles |-> << ExtProfile @@
                          [skills |-> <<"list", << <<"go">>, <<"int", 5>> >> >>] >>,
        projects |-> << ExtProject @@ [url |-> <<UrlBigPort>>] >>],
       [profiles |-> << ExtProfile @@
                          [socials |-> <<"dict", [github |-> <<"ann">>]>>,
                           skills |-> <<"list", << <<"go">> >> >>] >>,
        projects |-> << ExtProject @@
                          [tags |-> <<"list", << <<"int", 5>> >> >>] >>],
       [profiles |-> << ExtProfile @@ [skills |-> <<>>] >>,
        projects |-> << ExtProject @@ [tags |-> <<>>] >>],
       [profiles |-> << ExtProfile @@ [socials |-> <<>>] >>,
        projects |-> << ExtProject @@ [tags |-> <<"web">>] >>],
       [profiles |-> << ExtProfile @@ [skills |-> <<"go">>] >>,
        projects |-> << ExtProject @@ [url |-> <<UrlTooLong>>] >>],
       [profiles |-> << ExtProfile @@ [avatar |-> <<UrlTooLong>>] >>,
        projects |-> << ExtProject @@ [repo |-> <<UrlLongest>>] >>],
       [profiles |-> << ExtProfile @@ [avatar |-> <<UrlSpaced>>] >>,
        projects |-> << ExtProject @@ [url |-> <<"int", 5>>] >>],
       [profiles |-> << ExtProfile @@ [avatar |-> <<UrlLongest>>] >>,
        projects |-> << ExtProject @@ [url |-> <<UrlPath>>],
                        ExtProject @@ [repo |-> <<UrlBare>>],
                        ExtProject >>] >>

\* ---------------------------------------------------------------- requests
\* message lengths submitted: around both limits of the schema
MsgLens == (0..MinLen) \cup {MaxLen, MaxLen + 1}

Emails == UNION {[1..n -> EmailChars] : n \in 0..EmailMaxLen}

GoodEmail == <<"a", "@", "a", ".", "a">>

\* the payloads submitted to /api/contact: a well-formed one, with each
\* field in turn absent or ranging over its values
ContactPayloads ==
    {[name |-> n, email |-> <<GoodEmail>>, message |-> <<MinLen>>] :
        n \in {<<>>, <<"Ann">>}}
    \cup {[name |-> <<"Ann">>, email |-> e, message |-> <<MinLen>>] :
        e \in {<<>>} \cup {<<a>> : a \in Emails}}
    \cup {[name |-> <<"Ann">>, email |-> <<GoodEmail>>, message |-> m] :
        m \in {<<>>} \cup {<<l>> : l \in MsgLens}}

\* the payloads submitted while other requests are served: a well-formed
\* one, and one of each way to be rejected
SomePayloads ==
    {[name |-> <<"Ann">>, email |-> <<GoodEmail>>, message |-> <<l>>] :
        l \in {MinLen - 1, MinLen, MaxLen + 1}}
    \cup {[name |-> <<"Ann">>, email |-> <<SubSeq(GoodEmail, 1, 3)>>,
           message |-> <<MinLen>>],
          [name |-> <<>>, email |-> <<GoodEmail>>, message |-> <<MinLen>>]}

\* the payloads submitted when only the contact form is used: those above,
\* a well-formed one at the upper limit, each field absent, more addresses
FormPayloads ==
    SomePayloads
    \cup {p \in ContactPayloads :
             /\ Len(p.email) = 1 => p.email[1] \in
                    {GoodEmail, <<>>, <<"a", ".", "a">>, <<"a", "@", ".", "a">>}
             /\ Len(p.message) = 1 => p.message[1] \in {0, MinLen, MaxLen}}

\* the payloads submitted to /api/seed: {}, {with_demo: true},
\* {with_demo: false}
SeedPayloads == {<<>>, <<TRUE>>, <<FALSE>>}

\* lengths of the message of a store error
ErrLens == {0, ErrLimit, ErrLimit + 1}

\* --------------------------------------------------------------- responses
\* kind: "success" (the handler's payload), "http_error" (an HTTPException
\* raised by the handler), "validation_error" (the request body was rejected
\* before the handler ran), "uncaught" (an exception left the handler)
Response(handler, kind, status, body) ==
    [handler |-> handler, kind |-> kind, status |-> status, body |-> body]

Lens == [c \in Collections |-> Len(store[c])]

NoPayload == [name |-> <<>>, email |-> <<>>, message |-> <<>>]

\* a seed_content call that has just been accepted
Started == [pc |-> "count_profile", k |-> 0, inserted |-> 0, ops |-> 0]

\* the in-flight seed_content calls
InFlight == BagToSet(seeds)

\* the bag of calls once call c has moved to c2
Moved(c, c2) == (seeds (-) SetToBag({c})) (+) SetToBag({c2})

\* a request is accepted while fewer than `limit` seed requests are in flight
CanStart(limit) == nreq < MaxRequests /\ BagCardinality(seeds) < limit

Init ==
    /\ dbSet \in BOOLEAN
    /\ urlSet \in BOOLEAN
    /\ other = MaxOther
    /\ store = [c \in Collections |-> <<>>]
    /\ nextId = 1
    /\ seeds = EmptyBag
    /\ resp = Response("none", "success", 200, <<>>)
    /\ nreq = 0
    /\ ndone = 0
    /\ obs = [faulted |-> FALSE, projFail |-> FALSE, failed |-> FALSE,
              ops |-> 0, inserted |-> 0, pre |-> [c \in Collections |-> 0],
              demo |-> FALSE, demoDone |-> 0, demoOk |-> 0,
              payload |-> NoPayload]

\* the server started over a store that external management filled
InitExt ==
    /\ dbSet = TRUE
    /\ urlSet = TRUE
    /\ other = MaxOther
    /\ \E k \in 1..Len(ExtStores) :
          /\ store = [c \in Collections |->
                         IF c = "portfolioprofile"
                         THEN Stored(ExtStores[k].profiles, 0)
                         ELSE IF c = "portfolioproject"
                         THEN Stored(ExtStores[k].projects,
                                     Len(ExtStores[k].profiles))
                         ELSE <<>>]
          /\ nextId = Len(ExtStores[k].profiles) + Len(ExtStores[k].projects) + 1
    /\ seeds = EmptyBag
    /\ resp = Response("none", "success", 200, <<>>)
    /\ nreq = 0
    /\ ndone = 0
    /\ obs = [faulted |-> FALSE, projFail |-> FALSE, failed |-> FALSE,
              ops |-> 0, inserted |-> 0, pre |-> [c \in Collections |-> 0],
              demo |-> FALSE, demoDone |-> 0, demoOk |-> 0,
              payload |-> NoPayload]

\* the observer after an atomic handler that attempted `ops` store
\* operations, `failed` telling whether one of them failed
Observed(ops, failed, inserted) ==
    [obs EXCEPT !.faulted = @ \/ failed, !.failed = failed, !.ops = ops,
                !.inserted = inserted, !.pre = Lens, !.payload = NoPayload]

\* a request that has started and answered
Answered(r) ==
    /\ nreq' = nreq + 1
    /\ ndone' = ndone + 1
    /\ resp' = r

\* ------------------------------------------------------------------- GET /
root(limit) ==
    /\ CanStart(limit)
    /\ Answered(Response("root", "success", 200,
                         << [message |-> "Portfolio API is running"] >>))
    /\ obs' = Observed(0, FALSE, 0)
    /\ UNCHANGED <<dbSet, urlSet, other, store, nextId, seeds>>

\* --------------------------------------------------------------- GET /test
\* os.getenv("DATABASE_URL")
getenv_DATABASE_URL == urlSet

\* test_database listing every collection name, without the [:10]
test_database_status_all(listed, errLen) ==
    IF ~dbSet
    THEN [backend |-> "Running", database |-> <<"Not Available">>,
          database_url |-> "Not Set", database_name |-> "Not Set",
          connection_status |-> "Not Connected", collections |-> <<>>]
    ELSE [backend |-> "Running",
          database |-> IF listed THEN <<"Connected & Working">>
                       ELSE <<"Connected but Error: ", Min(errLen, ErrLimit)>>,
          database_url |-> IF getenv_DATABASE_URL THEN "Set" ELSE "Not Set",
          database_name |-> "db.name",
          connection_status |-> "Connected",
          collections |-> IF listed THEN list_collection_names ELSE <<>>]

\* the status object of test_database; listed tells whether
\* list_collection_names succeeded, errLen is the length of str(e) otherwise
\* (nothing in the outer try block can raise, so its handler is left out)
test_database_status(listed, errLen) ==
    IF ~dbSet
    THEN [backend |-> "Running", database |-> <<"Not Available">>,
          database_url |-> "Not Set", database_name |-> "Not Set",
          connection_status |-> "Not Connected", collections |-> <<>>]
    ELSE [backend |-> "Running",
          database |-> IF listed THEN <<"Connected & Working">>
                       ELSE <<"Connected but Error: ", Min(errLen, ErrLimit)>>,
          database_url |-> IF getenv_DATABASE_URL THEN "Set" ELSE "Not Set",
          database_name |-> "db.name",
          connection_status |-> "Connected",
          collections |-> IF listed
                          THEN SubSeq(list_collection_names, 1,
                                      Min(ListLimit, Len(list_collection_names)))
                          ELSE <<>>]

test_database(limit) ==
    /\ CanStart(limit)
    /\ \E ok \in BOOLEAN, errLen \in ErrLens :
          /\ Answered(Response("test_database", "success", 200,
                               << test_database_status(ok, errLen) >>))
          /\ obs' = Observed(IF dbSet THEN 1 ELSE 0, dbSet /\ ~ok, 0)
    /\ UNCHANGED <<dbSet, urlSet, other, store, nextId, seeds>>

\* -------------------------------------------------------- GET /api/profile
\* an exception that no handler catches
Uncaught == [kind |-> "uncaught", status |-> 500, body |-> <<>>]

\* get_profile after get_documents returned docs
get_profile_result(docs) ==
    IF docs = <<>>
    THEN [kind |-> "success", status |-> 200, body |-> <<>>]
    ELSE LET model == PortfolioProfile(Pop(docs[1], "_id"))
         IN IF model = <<>> THEN Uncaught
            ELSE [kind |-> "success", status |-> 200, body |-> model]

get_profile(limit) ==
    /\ CanStart(limit)
    /\ \E ok \in BOOLEAN :
          \E r \in IF StoreOk(ok)
                   THEN {get_profile_result(
                             get_documents("portfolioprofile", <<1>>, order)) :
                            order \in Orders(Len(store["portfolioprofile"]))}
                   ELSE {Uncaught} :
             /\ Answered(Response("get_profile", r.kind, r.status, r.body))
             /\ obs' = Observed(1, ~StoreOk(ok), 0)
    /\ UNCHANGED <<dbSet, urlSet, other, store, nextId, seeds>>

\* ------------------------------------------------------- GET /api/projects
\* list_projects returning after the first item
list_projects_result_first(items) ==
    IF items = <<>> THEN [kind |-> "success", status |-> 200, body |-> <<>>]
    ELSE LET model == PortfolioProject(Pop(items[1], "_id"))
         IN IF model = <<>> THEN Uncaught
            ELSE [kind |-> "success", status |-> 200, body |-> model]

\* list_projects after get_documents returned items
list_projects_result(items) ==
    LET results == [i \in 1..Len(items) |-> PortfolioProject(Pop(items[i], "_id"))]
    IN IF \E i \in 1..Len(items) : results[i] = <<>> THEN Uncaught
       ELSE [kind |-> "success", status |-> 200,
             body |-> [i \in 1..Len(items) |-> results[i][1]]]

list_projects(limit) ==
    /\ CanStart(limit)
    /\ \E ok \in BOOLEAN :
          \E r \in IF StoreOk(ok)
                   THEN {list_projects_result(
                             get_documents("portfolioproject", <<>>, order)) :
                            order \in Orders(Len(store["portfolioproject"]))}
                   ELSE {Uncaught} :
             /\ Answered(Response("list_projects", r.kind, r.status, r.body))
             /\ obs' = Observed(1, ~StoreOk(ok), 0)
    /\ UNCHANGED <<dbSet, urlSet, other, store, nextId, seeds>>

\* ------------------------------------------------------- POST /api/contact
\* payload.model_dump()
model_dump(p) ==
    [name |-> p.name[1], email |-> p.email[1], message |-> p.message[1]]

\* the request body is validated against ContactIn before submit_contact runs
ContactAccepted(p) == ContactMessage(p)

\* submit_contact after create_document returned the identifier id
submit_contact_result(id) ==
    [kind |-> "success", status |-> 200, body |-> << [ok |-> TRUE, id |-> id] >>]

ServerError ==
    [kind |-> "http_error", status |-> 500, body |-> << [detail |-> "store error"] >>]

ValidationError ==
    [kind |-> "validation_error", status |-> 422,
     body |-> << [detail |-> "validation error"] >>]

\* submit_contact writing to the profile collection
submit_contact_outcome_profile(p, ok) ==
    IF ~ContactAccepted(p)
    THEN [resp |-> ValidationError, store |-> store, nextId |-> nextId,
          ops |-> 0, failed |-> FALSE, inserted |-> 0]
    ELSE IF StoreOk(ok)
    THEN [resp |-> submit_contact_result(IdString(nextId)),
          store |-> Inserted("portfolioprofile", model_dump(p)),
          nextId |-> nextId + 1, ops |-> 1, failed |-> FALSE, inserted |-> 1]
    ELSE [resp |-> ServerError, store |-> store, nextId |-> nextId,
          ops |-> 1, failed |-> TRUE, inserted |-> 0]

\* everything submit_contact does with payload p when the backend answers ok
submit_contact_outcome(p, ok) ==
    IF ~ContactAccepted(p)
    THEN [resp |-> ValidationError, store |-> store, nextId |-> nextId,
          ops |-> 0, failed |-> FALSE, inserted |-> 0]
    ELSE IF StoreOk(ok)
    THEN [resp |-> submit_contact_result(IdString(nextId)),
          store |-> Inserted("contactmessage", model_dump(p)),
          nextId |-> nextId + 1, ops |-> 1, failed |-> FALSE, inserted |-> 1]
    ELSE [resp |-> ServerError, store |-> store, nextId |-> nextId,
          ops |-> 1, failed |-> TRUE, inserted |-> 0]

submit_contact(limit, payloads) ==
    /\ CanStart(limit)
    /\ \E p \in payloads, ok \in BOOLEAN :
          LET o == submit_contact_outcome(p, ok)
          IN /\ store' = o.store
             /\ nextId' = o.nextId
             /\ Answered(Response("submit_contact", o.resp.kind, o.resp.status,
                                  o.resp.body))
             /\ obs' = [Observed(o.ops, o.failed, o.inserted) EXCEPT !.payload = p]
    /\ UNCHANGED <<dbSet, urlSet, other, seeds>>

\* ---------------------------------------------------------- POST /api/seed
\* seed_content is a sequence of store round trips; c.pc is the one the
\* in-flight call c makes next: "count_profile" (line 100),
\* "create_profile" (101), "count_project" (124), "create_project" (152,
\* for sample[k]).
SeedOk == [kind |-> "success", status |-> 200, body |-> << [ok |-> TRUE] >>]

\* the in-flight call c answers r; s is the call at that moment
SeedAnswered(c, r, s, failed, projFail) ==
    /\ seeds' = seeds (-) SetToBag({c})
    /\ ndone' = ndone + 1
    /\ resp' = Response("seed_content", r.kind, r.status, r.body)
    /\ obs' = [obs EXCEPT !.faulted = @ \/ failed, !.projFail = @ \/ projFail,
                          !.failed = failed, !.ops = s.ops,
                          !.inserted = s.inserted,
                          !.demo = TRUE, !.demoDone = @ + 1,
                          !.demoOk = IF r.kind = "success" THEN @ + 1 ELSE @,
                          !.payload = NoPayload]

\* the request is accepted; `if req.with_demo` (line 98)
seed_begin(limit) ==
    /\ CanStart(limit)
    /\ nreq' = nreq + 1
    /\ \E p \in SeedPayloads :
          /\ IF SeedRequest(p)
             THEN /\ seeds' = seeds (+) SetToBag({Started})
                  /\ obs' = [obs EXCEPT !.pre = Lens]
                  /\ UNCHANGED <<resp, ndone>>
             ELSE /\ resp' = Response("seed_content", SeedOk.kind, SeedOk.status,
                                      SeedOk.body)
                  /\ ndone' = ndone + 1
                  /\ obs' = [Observed(0, FALSE, 0) EXCEPT !.demo = FALSE]
                  /\ UNCHANGED seeds
    /\ UNCHANGED <<dbSet, urlSet, other, store, nextId>>

\* db["portfolioprofile"].count_documents({}) == 0
seed_count_profile(c) ==
    /\ c.pc = "count_profile"
    /\ \E ok \in BOOLEAN :
          LET s == [c EXCEPT !.ops = @ + 1]
          IN IF StoreOk(ok)
             THEN /\ seeds' = Moved(c, [s EXCEPT !.pc =
                         IF SeedWanted(count_documents("portfolioprofile"))
                         THEN "create_profile" ELSE "count_project"])
                  /\ UNCHANGED <<resp, ndone, obs>>
             ELSE SeedAnswered(c, ServerError, s, TRUE, FALSE)
    /\ UNCHANGED <<dbSet, urlSet, other, store, nextId, nreq>>

\* create_document("portfolioprofile", {...})
seed_create_profile(c) ==
    /\ c.pc = "create_profile"
    /\ \E ok \in BOOLEAN :
          LET s == [c EXCEPT !.ops = @ + 1]
          IN IF StoreOk(ok)
             THEN /\ store' = Inserted("portfolioprofile", SeedProfile)
                  /\ nextId' = nextId + 1
                  /\ seeds' = Moved(c,
                         [s EXCEPT !.pc = "count_project", !.inserted = @ + 1])
                  /\ UNCHANGED <<resp, ndone, obs>>
             ELSE /\ SeedAnswered(c, ServerError, s, TRUE, FALSE)
                  /\ UNCHANGED <<store, nextId>>
    /\ UNCHANGED <<dbSet, urlSet, other, nreq>>

\* db["portfolioproject"].count_documents({}) == 0
seed_count_project(c) ==
    /\ c.pc = "count_project"
    /\ \E ok \in BOOLEAN :
          LET s == [c EXCEPT !.ops = @ + 1]
          IN IF StoreOk(ok)
             THEN IF SeedWanted(count_documents("portfolioproject"))
                  THEN /\ seeds' = Moved(c,
                              [s EXCEPT !.pc = "create_project", !.k = 1])
                       /\ UNCHANGED <<resp, ndone, obs>>
                  ELSE SeedAnswered(c, SeedOk, s, FALSE, FALSE)
             ELSE SeedAnswered(c, ServerError, s, TRUE, FALSE)
    /\ UNCHANGED <<dbSet, urlSet, other, store, nextId, nreq>>

\* for p in sample: create_document("portfolioproject", p)
seed_create_project(c) ==
    /\ c.pc = "create_project"
    /\ \E ok \in BOOLEAN :
          LET s == [c EXCEPT !.ops = @ + 1]
              k == c.k
          IN IF StoreOk(ok)
             THEN /\ store' = Inserted("portfolioproject", sample[k])
                  /\ nextId' = nextId + 1
                  /\ IF k = Len(sample)
                     THEN SeedAnswered(c, SeedOk, [s EXCEPT !.inserted = @ + 1],
                                       FALSE, FALSE)
                     ELSE /\ seeds' = Moved(c,
                                 [s EXCEPT !.k = k + 1, !.inserted = @ + 1])
                          /\ UNCHANGED <<resp, ndone, obs>>
             ELSE /\ SeedAnswered(c, ServerError, s, TRUE, TRUE)
                  /\ UNCHANGED <<store, nextId>>
    /\ UNCHANGED <<dbSet, urlSet, other, nreq>>

\* a store round trip of an in-flight seed_content call
seed_content ==
    \E c \in InFlight :
        \/ seed_count_profile(c)
        \/ seed_create_profile(c)
        \/ seed_count_project(c)
        \/ seed_create_project(c)

\* ---------------------------------------------------------- specifications
\* the server: requests are handled concurrently, a seed_content call gives
\* way to other requests at each store round trip
Next ==
    \/ root(MaxInFlight)
    \/ test_database(MaxInFlight)
    \/ get_profile(MaxInFlight)
    \/ list_projects(MaxInFlight)
    \/ submit_contact(MaxInFlight, SomePayloads)
    \/ seed_begin(MaxInFlight)
    \/ seed_content

Spec == Init /\ [][Next]_vars

\* the same server when each request is sent after the previous one answered
NextSeq ==
    \/ root(1)
    \/ test_database(1)
    \/ get_profile(1)
    \/ list_projects(1)
    \/ submit_contact(1, SomePayloads)
    \/ seed_begin(1)
    \/ seed_content

SpecSeq == Init /\ [][NextSeq]_vars

\* the same server when the clients only submit the contact form
NextContact == submit_contact(1, FormPayloads)

SpecContact == Init /\ [][NextContact]_vars

\* the content endpoints, one request after the other, over a store that
\* external management filled
NextExt ==
    \/ get_profile(1)
    \/ list_projects(1)
    \/ seed_begin(1)
    \/ seed_content

SpecExt == InitExt /\ [][NextExt]_vars

\* ------------------------------------------------------------------ claims
Profiles == store["portfolioprofile"]

Projects == store["portfolioproject"]

Contacts == store["contactmessage"]

\* a seed_content call with with_demo = true has just answered: its response
\* is the last one and no later seed request is in flight
DemoSeedAnswered == resp.handler = "seed_content" /\ obs.demo /\ InFlight = {}

\* C1: from an empty store with the store available and no store operation
\* failing, once the second with_demo seed request of a sequential run has
\* answered there are exactly one profile and three projects, that second
\* request inserted nothing, and both requests answered {ok: true}.
C1_SeedTwice ==
    (dbSet /\ ~obs.faulted /\ DemoSeedAnswered /\ obs.demoDone = 2)
        => /\ Len(Profiles) = 1
           /\ Len(Projects) = 3
           /\ obs.inserted = 0
           /\ obs.demoOk = 2
           /\ resp.kind = "success" /\ resp.body = << [ok |-> TRUE] >>

C1_Witness ==
    /\ dbSet /\ ~obs.faulted /\ DemoSeedAnswered /\ obs.demoDone = 2
    /\ obs.ops = 2 /\ Len(Profiles) = 1 /\ Len(Projects) = 3

\* C4: every handler ends in its success payload or in an error response of
\* its own: no exception leaves a handler, and a failed store operation in
\* an /api handler gives a 500 response raised by the handler.
C4_NoUncaught ==
    /\ resp.kind \in {"success", "http_error", "validation_error"}
    /\ (obs.failed /\ resp.handler \in {"get_profile", "list_projects",
                                        "submit_contact", "seed_content"})
          => (resp.kind = "http_error" /\ resp.status = 500)

\* C5: under any interleaving of seed requests, starting from an empty
\* store, there is never more than one profile nor more than three projects.
C5_SeedNeverDuplicates == Len(Profiles) <= 1 /\ Len(Projects) <= Len(sample)

\* C8: GET /test always answers with a status object, listing at most ten
\* collection names; without a database connection (db is None), whatever
\* the environment holds, it reports the URL as not set and the connection
\* as not connected.
C8_TestNeverRaises ==
    resp.handler = "test_database"
        => /\ resp.kind = "success" /\ resp.status = 200
           /\ Len(resp.body) = 1
           /\ Len(resp.body[1].collections) <= 10
           /\ ~dbSet => /\ resp.body[1].database_url = "Not Set"
                        /\ resp.body[1].connection_status = "Not Connected"
                        /\ resp.body[1].collections = <<>>

\* more than ten collections exist and /test lists ten of them
C8_Witness ==
    /\ resp.handler = "test_database"
    /\ Len(list_collection_names) > 10
    /\ Len(resp.body[1].collections) = 10

\* C9 as stated: in a sequential run where store writes may fail, a with_demo
\* seed that answers {ok: true} leaves exactly one profile and three projects.
C9_OkMeansFullySeeded ==
    (DemoSeedAnswered /\ resp.kind = "success")
        => (Len(Profiles) = 1 /\ Len(Projects) = 3)

\* C9 amended: in a sequential run where store operations may fail, a
\* with_demo seed that answers {ok: true} leaves exactly one profile and
\* between one and three projects, three unless a project insert failed
\* earlier; a seed that fails answers 500 and the records it inserted stay.
C9_OkMeansSeeded ==
    DemoSeedAnswered
        => /\ resp.kind = "success"
                => /\ Len(Profiles) = 1
                   /\ Len(Projects) \in 1..3
                   /\ ~obs.projFail => Len(Projects) = 3
           /\ resp.kind # "success"
                => /\ resp.kind = "http_error" /\ resp.status = 500
                   /\ obs.failed
           /\ Len(Profiles) + Len(Projects)
                = obs.pre["portfolioprofile"] + obs.pre["portfolioproject"]
                  + obs.inserted

\* a seed answered ok over a store that an earlier, failed seed left partial
C9_Witness ==
    /\ DemoSeedAnswered /\ resp.kind = "success" /\ obs.inserted = 0
    /\ Len(Profiles) = 1 /\ Len(Projects) = 2 /\ obs.projFail

\* --- the address syntax stated as a grammar, to state C2 and C3:
\* atom ::= "a"+, dot-atom ::= atom ("." atom)*,
\* address ::= dot-atom "@" atom ("." atom)+
Atoms(n) == {[i \in 1..k |-> "a"] : k \in 1..n}

RECURSIVE DotAtoms(_)
DotAtoms(n) ==
    IF n <= 0 THEN {}
    ELSE Atoms(n) \cup
         {x \in {a \o <<".">> \o d : a \in Atoms(n), d \in DotAtoms(n - 2)} :
             Len(x) <= n}

WellFormedEmails ==
    {x \in {l \o <<"@">> \o d : l \in DotAtoms(EmailMaxLen),
                               d \in DotAtoms(EmailMaxLen) \ Atoms(EmailMaxLen)} :
        Len(x) <= EmailMaxLen}

\* a payload the claim calls invalid: a required field is missing, the
\* message has length 0, 1 or 2 or more than 5000, or the address is not
\* well formed
Rejected(p) ==
    \/ Len(p.name) = 0 \/ Len(p.email) = 0 \/ Len(p.message) = 0
    \/ p.message[1] \in {0, 1, 2}
    \/ p.message[1] > 5000
    \/ p.email[1] \notin WellFormedEmails

\* a payload the claim calls valid
WellFormed(p) ==
    /\ Len(p.name) = 1 /\ Len(p.email) = 1 /\ Len(p.message) = 1
    /\ p.message[1] \in 3..5000
    /\ p.email[1] \in WellFormedEmails

\* C2: a payload that fails validation is answered with a client error, no
\* store operation is attempted and the contactmessage collection is
\* unchanged: for every payload that may arrive, and for the one that
\* arrived last.
C2_InvalidRejected ==
    /\ \A p \in ContactPayloads, ok \in BOOLEAN :
          Rejected(p) =>
             LET o == submit_contact_outcome(p, ok)
             IN /\ o.resp.kind = "validation_error"
                /\ o.resp.status \in 400..499
                /\ o.ops = 0
                /\ o.store = store
    /\ (resp.handler = "submit_contact" /\ Rejected(obs.payload))
          => /\ resp.status \in 400..499
             /\ obs.ops = 0
             /\ Len(Contacts) = obs.pre["contactmessage"]

\* a too short message was rejected and the record stored before is intact
C2_Witness ==
    /\ resp.handler = "submit_contact" /\ resp.status = 422
    /\ obs.payload.message = <<2>>
    /\ obs.ops = 0 /\ Len(Contacts) = 1

\* C3 as stated: every valid payload is answered ok: true with a non-empty
\* identifier and adds exactly one record.
C3_ValidAlwaysStored ==
    (resp.handler = "submit_contact" /\ WellFormed(obs.payload))
        => /\ resp.kind = "success"
           /\ resp.body[1].ok
           /\ resp.body[1].id # <<>>
           /\ Len(Contacts) = obs.pre["contactmessage"] + 1

\* C3 amended: every valid payload is answered ok: true with a non-empty
\* identifier and adds exactly one record when the store accepts the write;
\* when the store is unavailable or rejects the write the answer is a 500
\* error and no record is added.
C3_ValidStored ==
    /\ \A p \in ContactPayloads, ok \in BOOLEAN :
          WellFormed(p) =>
             LET o == submit_contact_outcome(p, ok)
             IN IF dbSet /\ ok
                THEN /\ o.resp.kind = "success" /\ o.resp.status = 200
                     /\ o.resp.body[1].ok
                     /\ o.resp.body[1].id # <<>>
                     /\ Len(o.store["contactmessage"]) = Len(Contacts) + 1
                     /\ IsPrefix(Contacts, o.store["contactmessage"])
                     /\ o.store["portfolioprofile"] = Profiles
                     /\ o.store["portfolioproject"] = Projects
                ELSE /\ o.resp.kind = "http_error" /\ o.resp.status = 500
                     /\ o.store = store
    /\ (resp.handler = "submit_contact" /\ WellFormed(obs.payload))
          => IF resp.kind = "success"
             THEN /\ resp.body[1].ok /\ resp.body[1].id # <<>>
                  /\ Len(Contacts) = obs.pre["contactmessage"] + 1
             ELSE /\ resp.status = 500 /\ obs.failed
                  /\ Len(Contacts) = obs.pre["contactmessage"]

\* a message of the least length was stored after an earlier record
C3_Witness ==
    /\ resp.handler = "submit_contact" /\ resp.kind = "success"
    /\ obs.payload.message = <<3>>
    /\ resp.body[1].id = <<"2">>
    /\ Len(Contacts) = 2 /\ Contacts[2].message = 3

\* the step is a request of `handler` answering
Answers(handler) == ndone' = ndone + 1 /\ resp'.handler = handler

\* a stored record that passes the Profile schema: name, role and bio are
\* strings, location is absent, null or a string, avatar is absent, null or
\* an http(s) URL of at most 2083 characters, socials is absent or a mapping
\* whose values are null or strings, skills is absent or a list of strings
ProfileAcceptable(d) ==
    /\ \A f \in {"name", "role", "bio"} : f \in DOMAIN d /\ Len(d[f]) = 1
    /\ "location" \in DOMAIN d => Len(d.location) <= 1
    /\ "avatar" \in DOMAIN d =>
          \/ d.avatar = <<>>
          \/ Len(d.avatar) = 1 /\ HttpUrl(d.avatar[1]) # <<>>
    /\ "socials" \in DOMAIN d =>
          /\ Len(d.socials) = 2 /\ d.socials[1] = "dict"
          /\ \A k \in DOMAIN d.socials[2] : Len(d.socials[2][k]) <= 1
    /\ "skills" \in DOMAIN d =>
          /\ Len(d.skills) = 2 /\ d.skills[1] = "list"
          /\ \A i \in 1..Len(d.skills[2]) : Len(d.skills[2][i]) = 1

\* a stored record that passes the Project schema: title and description are
\* strings, image is absent, null or a string, url and repo are absent, null
\* or an http(s) URL of at most 2083 characters, tags is absent or a list of
\* strings
ProjectAcceptable(d) ==
    /\ \A f \in {"title", "description"} : f \in DOMAIN d /\ Len(d[f]) = 1
    /\ "image" \in DOMAIN d => Len(d.image) <= 1
    /\ \A f \in {"url", "repo"} :
          f \in DOMAIN d =>
             \/ d[f] = <<>>
             \/ Len(d[f]) = 1 /\ HttpUrl(d[f][1]) # <<>>
    /\ "tags" \in DOMAIN d =>
          /\ Len(d.tags) = 2 /\ d.tags[1] = "list"
          /\ \A i \in 1..Len(d.tags[2]) : Len(d.tags[2][i]) = 1

\* C6 as stated: GET /api/profile returns null when the profile collection
\* is empty and otherwise one stored profile without its identifier, and
\* leaves the stored records as they are.
C6_ProfileAlwaysReturned ==
    [][Answers("get_profile") =>
          /\ store' = store
          /\ resp'.kind = "success"
          /\ IF Profiles = <<>> THEN resp'.body = <<>>
             ELSE /\ Len(resp'.body) = 1
                  /\ "_id" \notin DOMAIN resp'.body[1]
                  /\ \E i \in 1..Len(Profiles) :
                        resp'.body[1] = Pop(Profiles[i], "_id")]_vars

\* the object `body` is the stored profile record d as the Profile schema
\* presents it: exactly the fields of the schema, the stored values, the
\* default for an absent optional field, the avatar URL in normal form, and
\* neither the identifier nor a field unknown to the schema; it is d without
\* its identifier when d has the fields of the schema and no avatar
ProfilePresented(d, body) ==
    /\ DOMAIN body = {"name", "role", "bio", "location", "avatar", "socials",
                      "skills"}
    /\ \A f \in {"name", "role", "bio"} : body[f] = d[f]
    /\ body.location = IF "location" \in DOMAIN d THEN d.location ELSE <<>>
    /\ body.skills = IF "skills" \in DOMAIN d THEN d.skills
                     ELSE <<"list", <<>>>>
    /\ body.socials =
          IF "socials" \in DOMAIN d THEN d.socials
          ELSE <<"dict", [github |-> <<>>, twitter |-> <<>>,
                          linkedin |-> <<>>, website |-> <<>>]>>
    /\ body.avatar = IF "avatar" \in DOMAIN d /\ d.avatar # <<>>
                     THEN HttpUrl(d.avatar[1]) ELSE <<>>
    /\ (DOMAIN d = DOMAIN body \cup {"_id"} /\ d.avatar = <<>>)
          => body = Pop(d, "_id")

\* C6 amended: when the store read succeeds, GET /api/profile returns null
\* when the profile collection is empty; otherwise the store hands back one
\* of the stored records, and when that record passes the Profile schema
\* the response is one object presenting it (the fields of the schema,
\* defaults filled in, the avatar URL in normal form, no identifier and no
\* unknown field), and when it does not pass the request fails with a server
\* error, as it does when the read fails.  The stored records are as they
\* were in every case.
C6_ProfileReturned ==
    [][Answers("get_profile") =>
          /\ store' = store
          /\ IF obs'.failed THEN resp'.status = 500 /\ resp'.kind # "success"
             ELSE IF Profiles = <<>>
             THEN resp'.kind = "success" /\ resp'.body = <<>>
             ELSE \E i \in 1..Len(Profiles) :
                     IF ProfileAcceptable(Profiles[i])
                     THEN /\ resp'.kind = "success"
                          /\ Len(resp'.body) = 1
                          /\ ProfilePresented(Profiles[i], resp'.body[1])
                     ELSE resp'.status = 500 /\ resp'.kind # "success"]_vars

\* a stored profile was returned with its avatar, stored with a port
\* written 080 and dot segments, in normal form
C6_Witness ==
    /\ resp.handler = "get_profile" /\ resp.kind = "success"
    /\ Len(resp.body) = 1 /\ Len(Profiles) = 2
    /\ Profiles[1].avatar = <<UrlDots>>
    /\ resp.body[1].avatar =
          << <<"h", "t", "t", "p", ":", "/", "/", "e", "/", "b", "/">> >>
    /\ resp.body[1].location = <<"Oslo">>

\* C7 as stated: GET /api/projects returns as many objects as there are
\* stored projects ([] when there is none), none with an identifier field.
C7_ProjectsAlwaysListed ==
    [][Answers("list_projects") =>
          /\ resp'.kind = "success"
          /\ Len(resp'.body) = Len(Projects)
          /\ Projects = <<>> => resp'.body = <<>>
          /\ \A i \in 1..Len(resp'.body) : "_id" \notin DOMAIN resp'.body[i]]_vars

\* C7 amended: when the store read succeeds and every stored project
\* record passes the Project schema, GET /api/projects returns as many
\* objects as there are stored projects ([] when there is none), none with
\* an identifier field; when the read fails or a stored record does not pass
\* the schema the request fails with a server error.
C7_ProjectsListed ==
    [][Answers("list_projects") =>
          IF obs'.failed THEN resp'.status = 500 /\ resp'.kind # "success"
          ELSE IF \A i \in 1..Len(Projects) : ProjectAcceptable(Projects[i])
          THEN /\ resp'.kind = "success"
               /\ Len(resp'.body) = Len(Projects)
               /\ Projects = <<>> => resp'.body = <<>>
               /\ \A i \in 1..Len(resp'.body) :
                     "_id" \notin DOMAIN resp'.body[i]
          ELSE resp'.status = 500 /\ resp'.kind # "success"]_vars

\* three stored projects were listed, in another order than they were
\* stored, the URL of the one stored first in normal form
C7_Witness ==
    /\ resp.handler = "list_projects" /\ resp.kind = "success"
    /\ Len(resp.body) = 3 /\ Len(Projects) = 3
    /\ Projects[1].url = <<UrlPath>> /\ Projects[2].repo = <<UrlBare>>
    /\ resp.body[1].repo = << UrlBare \o <<"/">> >>
    /\ resp.body[3].url = <<UrlPath>>

\* C10: no request modifies or removes a stored record; the GET handlers and
\* a seed with with_demo = false change nothing; a contact submission only
\* appends at most one contactmessage record; a seed only appends profile
\* and project records.
C10_Frame ==
    [][/\ \A c \in Collections : IsPrefix(store[c], store'[c])
       /\ (\E h \in {"root", "test_database", "get_profile", "list_projects"} :
              Answers(h)) => store' = store
       /\ (Answers("seed_content") /\ ~obs'.demo) => store' = store
       /\ Answers("submit_contact")
             => /\ store'["portfolioprofile"] = Profiles
                /\ store'["portfolioproject"] = Projects
                /\ Len(store'["contactmessage"]) <= Len(Contacts) + 1
       /\ (seeds' # seeds \/ Answers("seed_content"))
             => /\ store'["contactmessage"] = Contacts
                /\ Len(store'["portfolioprofile"]) + Len(store'["portfolioproject"])
                      <= Len(Profiles) + Len(Projects) + 1]_vars

\* every collection holds records and a read has just answered
C10_Witness ==
    /\ Len(Contacts) = 1 /\ Len(Profiles) = 1 /\ Len(Projects) = 3
    /\ resp.handler = "list_projects" /\ resp.kind = "success"

====
